---- MODULE Spec2Model ----
(***************************************************************************)
(* Extraction job orchestration of the PDF-Extractor backend:              *)
(* backend/src/tasks.py (process_document_with_extractor, the circuit      *)
(* breaker helpers, the retry policy lookup, the error classifier) and     *)
(* backend/src/factory.py (the extractor registry).                        *)
(*                                                                         *)
(* The database holds one row per job; Redis holds one failure counter     *)
(* per extractor identifier with an expiry; the Celery queue holds task    *)
(* messages; each worker executes one invocation at a time, one            *)
(* externally visible operation per step.  Time advances by Tick, which    *)
(* counts down the expiry of the breaker keys and the countdown of the     *)
(* queued retries.                                                         *)
(***************************************************************************)
EXTENDS Integers, Sequences, FiniteSets, TLC

(***************************************************************************)
(* Model sets and bounds                                                   *)
(***************************************************************************)
Jobs == {"j1", "j2"}
Workers == {"w1", "w2"}

\* Largest number of pages an extractor returns in the model.
MaxPages == 1
\* Largest number of non-terminal answers a polled backend gives in the model.
MaxPolls == 2
\* Largest number of requests the retry endpoint accepts for one job.
MaxManualRetries == 1
\* Largest number of get_status calls made on one instance called directly.
MaxCalls == 2

\* Extractor identifiers a job may name: a sync extractor whose read()
\* returns the page map, a sync extractor whose read() returns True, an
\* async polled extractor, a webhook extractor, an identifier of
\* PDFExtractorType that has no entry in READER_MAP, and an OpenAI vision
\* model.
ExtractorIds ==
    {"PDFPlumber", "PyPDF2", "Mathpix", "LlamaParse", "Camelot", "gpt-4o"}

NOT_STARTED == "Not Started"
PROCESSING == "Processing"
SUCCESS == "Success"
FAILURE == "Failure"
ExtractionStatus == {NOT_STARTED, PROCESSING, SUCCESS, FAILURE}

\* A column that holds no value.
NULL == "NULL"
\* A timestamp column that holds a value.
SET == "SET"

(***************************************************************************)
(* src/constants.py (not part of the sources at hand): values chosen small *)
(***************************************************************************)
CIRCUIT_BREAKER_THRESHOLD == 2
CIRCUIT_BREAKER_TIMEOUT == 2
DEFAULT_RETRY_CONFIG == [countdown |-> 1, max_retries |-> 3]
EXTRACTOR_RETRY_CONFIG == [Mathpix |-> [countdown |-> 2, max_retries |-> 1]]

(***************************************************************************)
(* Pure functions of tasks.py and factory.py                               *)
(***************************************************************************)
\* cost_per_page, in units of 1/10000
cost_per_page ==
    ("PyPDF" :> 0) @@ ("PyMuPDF" :> 0) @@ ("PDFPlumber" :> 0) @@
    ("Camelot" :> 0) @@ ("Textract" :> 15) @@ ("Tesseract" :> 0) @@
    ("gpt-4o-mini" :> 50) @@ ("gpt-4o" :> 100) @@ ("gpt-4-turbo" :> 150)

calculate_extraction_cost(extractor_type, page_count) ==
    LET base_cost == IF extractor_type \in DOMAIN cost_per_page
                     THEN cost_per_page[extractor_type]
                     ELSE 10
    IN  base_cost * page_count

\* a lookup that ignores the extractor's own entry
get_retry_config_default(extractor_type) == DEFAULT_RETRY_CONFIG

get_retry_config(extractor_type) ==
    IF extractor_type \in DOMAIN EXTRACTOR_RETRY_CONFIG
    THEN EXTRACTOR_RETRY_CONFIG[extractor_type]
    ELSE DEFAULT_RETRY_CONFIG

\* The exception classes the model raises, each with its base classes
\* (itself included), as isinstance sees them.
ExcBases ==
    [RuntimeError |-> {"RuntimeError", "Exception"},
     ValueError |-> {"ValueError", "Exception"},
     ConnectionError |-> {"ConnectionError", "OSError", "Exception"},
     PermissionError |-> {"PermissionError", "OSError", "Exception"},
     OperationalError |-> {"OperationalError", "DatabaseError",
                           "SQLAlchemyError", "Exception"},
     RedisError |-> {"RedisError", "Exception"},
     NotImplementedError |-> {"NotImplementedError", "RuntimeError",
                              "Exception"}]

NoExc == "none"

infrastructure_errors ==
    {"DatabaseError", "OperationalError", "PendingRollbackError",
     "Psycopg2DatabaseError", "ConnectionError", "FileNotFoundError", "OSError"}

\* a classifier that compares the class itself instead of using isinstance
is_infrastructure_error_exact(exception) ==
    exception \in infrastructure_errors

is_infrastructure_error(exception) ==
    ExcBases[exception] \cap infrastructure_errors # {}

READER_MAP == {"PyMuPDF", "PDFPlumber", "PyPDF2", "Tesseract", "Textract",
               "MarkItDown", "LlamaParse", "Mathpix",
               "gpt-4o-mini", "gpt-4o", "gpt-4-turbo"}

\* supports_webhook() of the extractor an identifier resolves to
supports_webhook(extractor_type) == extractor_type = "LlamaParse"

\* read() returns the page map itself (a dict) rather than a handle
read_returns_dict(extractor_type) ==
    extractor_type \in {"PDFPlumber", "gpt-4o"}

\* get_status() answers 'succeeded' at once (the sync extractors)
status_immediate(extractor_type) ==
    extractor_type \in {"PyPDF2", "PDFPlumber", "gpt-4o"}

\* what get_status() of the extractor may answer
get_status_answers(extractor_type) ==
    IF status_immediate(extractor_type)
    THEN {"succeeded"}
    ELSE {"processing", "succeeded", "failed"}

\* a loop condition that leaves the loop only on 'succeeded'
poll_continues_unless_succeeded(status) == status # "succeeded"

\* while status not in ["succeeded", "failed"]
poll_continues(status) == status \notin {"succeeded", "failed"}

\* int((end_time - start_time).total_seconds() * 1000), times in seconds
latency_ms_of(start_time, end_time) == (end_time - start_time) * 1000

(***************************************************************************)
(* Page contents                                                           *)
(***************************************************************************)
\* The content-kind tags of a page body, and what the value under a tag can
\* be: no entry, the empty string, a whitespace-only string, a string with a
\* non-blank character.
Tags == {"COMBINED", "TEXT", "TABLE", "LATEX", "MARKDOWN"}
Values == {"absent", "empty", "blank", "text"}
AllBodies == [Tags -> Values]

NoContent == [t \in Tags |-> "absent"]
\* the bodies the extractors of the job flow return in the model: a page of
\* plain text and a page of whitespace
PageBodies ==
    {[NoContent EXCEPT !["TEXT"] = "text"],
     [NoContent EXCEPT !["TEXT"] = "blank"]}

\* bool(value): None and "" are falsy
truthy(value) == value \in {"blank", "text"}

\* value.strip()
strip(value) == IF value = "text" THEN "text" ELSE "empty"

\* data.get("COMBINED") or data.get("TEXT") or data.get("LATEX") or ""
first_of_combined_text_latex(data) ==
    IF truthy(data["COMBINED"]) THEN data["COMBINED"]
    ELSE IF truthy(data["TEXT"]) THEN data["TEXT"]
    ELSE IF truthy(data["LATEX"]) THEN data["LATEX"]
    ELSE "empty"

(***************************************************************************)
(* State                                                                   *)
(***************************************************************************)
VARIABLES
    pool,       \* the workers that consume the queue
    faults,     \* the services that can fail: "db", "redis", "fs"
    manual,     \* history: accepted requests of the retry endpoint, per job
    extractor_of, \* the extractor identifier each job was submitted with
    job,        \* DocumentExtractionJob rows: the committed columns of each job
    rows,       \* committed DocumentPageContent rows of each job
    cb_count,   \* Redis circuit_breaker:<extractor>: the counter, 0 = no key
    cb_ttl,     \* Redis: remaining time to live of the key, 0 = no expiry
    queue,      \* Celery: the task messages waiting for a worker
    pc,         \* where each worker stands in its invocation
    inv,        \* the invocation each worker executes
    recorded,   \* history: failures recorded per extractor since its last
                \* recorded success or the last expiry of its key
    failed,     \* history: executions that ended in a retryable failure, per job
    attempts,   \* history: executions begun, per job
    call,       \* a direct call of a function of the module: its argument
    ret         \* a direct call of a function of the module: what it returned

conf == <<pool, extractor_of, faults, manual>>
fn == <<call, ret>>
db == <<job, rows>>
redis == <<cb_count, cb_ttl>>
hist == <<recorded, failed, attempts>>
vars == <<fn, conf, db, redis, queue, pc, inv, hist>>

\* page_contents before it is assigned
NoPages == [kind |-> "unset", map |-> <<>>]
\* page_contents = None
NonePages == [kind |-> "None", map |-> <<>>]
\* the page maps {1: body, ..., n: body} with bodies of B and at most k pages
PageMapsOver(B, k) ==
    {[kind |-> "dict", map |-> m] : m \in UNION {[1..n -> B] : n \in 0..k}}
\* the page maps an extractor returns in the model
PageMaps == PageMapsOver(PageBodies, MaxPages)

\* {1: {"content": {"LATEX": ""}, "metadata": {"error": ...}}}
PlaceholderPages ==
    [kind |-> "dict",
     map |-> <<[t \in Tags |-> IF t = "LATEX" THEN "empty" ELSE "absent"]>>]

\* {1: {"content": {"TEXT": ""}, "metadata": {"error": ...}}}
text_placeholder ==
    [kind |-> "dict",
     map |-> <<[t \in Tags |-> IF t = "TEXT" THEN "empty" ELSE "absent"]>>]

\* _process_pdf when _extract_text_from_image fails on every page: the TEXT
\* of each page is the message "Error extracting text: ...", a string with
\* non-blank characters
vision_error_pages ==
    {[kind |-> "dict",
      map |-> [p \in 1..n |-> [NoContent EXCEPT !["TEXT"] = "text"]]] :
        n \in 1..MaxPages}

\* what read() stores or returns when the backend of the extractor fails and
\* the extractor catches the exception
read_failure_pages(extractor_type) ==
    IF extractor_type = "gpt-4o"
    THEN vision_error_pages \cup {text_placeholder}
    ELSE IF extractor_type = "PyPDF2" THEN {text_placeholder}
    ELSE {}

\* the same for get_result()
get_result_failure_pages(extractor_type) ==
    IF extractor_type = "Mathpix" THEN {PlaceholderPages} ELSE {}

\* the results a call of the extractor can have: a page map of the document,
\* or what the extractor makes of a failure of its backend
Outcomes(failure_pages) ==
    [pages : PageMaps, backend_failed : {FALSE}]
        \cup [pages : failure_pages, backend_failed : {TRUE}]

IdleInv ==
    [job |-> "none", ext |-> "none", retries |-> 0, task |-> 0,
     exc |-> NoExc, page_contents |-> NoPages, last_result |-> NoPages,
     polls |-> 0, start_time |-> 0, now |-> 0, latency_ms |-> 0,
     \* history of this invocation
     attempt |-> 0, raised_at |-> "none", statuses |-> <<>>, sleeps |-> 0,
     cb_at_start |-> 0, recorded_at_start |-> 0, rejected |-> FALSE,
     reset_from |-> 0, write_failed |-> FALSE,
     writes |-> <<>>, calls |-> <<>>,
     retry_requested |-> FALSE, retry_scheduled |-> FALSE,
     recorded_failures |-> 0,
     told_failed |-> FALSE, told_complete |-> FALSE,
     backend_failed |-> FALSE]

\* a task message: the arguments of the task, the retries of the request, the
\* countdown left, and the task id (0 for the task of the submission)
Message(j, x, r, d) ==
    [job |-> j, ext |-> x, retries |-> r, delay |-> d, task |-> 0]

\* The state after the jobs of `submitted` have been created and enqueued
\* (start_background_tasks_for_documents), with the workers of `ws` running;
\* `inputs` are the arguments of the direct call, if one is made; the jobs
\* are submitted with extractors of `exts`, and the services of `fs` can fail.
InitOf(submitted, ws, inputs, exts, fs) ==
    /\ pool = ws
    /\ faults = fs
    /\ manual = [j \in Jobs |-> 0]
    /\ extractor_of \in [Jobs -> exts \cup {"none"}]
    /\ \A j \in Jobs : extractor_of[j] = "none" <=> j \notin submitted
    /\ job = [j \in Jobs |->
                [status |-> NOT_STARTED, start_time |-> NULL,
                 end_time |-> NULL, latency_ms |-> NULL, cost |-> NULL]]
    /\ rows = [j \in Jobs |-> {}]
    /\ cb_count = [x \in ExtractorIds |-> 0]
    /\ cb_ttl = [x \in ExtractorIds |-> 0]
    /\ queue = {Message(j, extractor_of[j], 0, 0) : j \in submitted}
    /\ pc = [w \in Workers |-> "idle"]
    /\ inv = [w \in Workers |-> IdleInv]
    /\ recorded = [x \in ExtractorIds |-> 0]
    /\ failed = [j \in Jobs |-> 0]
    /\ attempts = [j \in Jobs |-> 0]
    /\ call \in inputs
    /\ ret = "pending"

AllFaults == {"db", "redis", "fs"}

InitWith(submitted, ws, inputs) ==
    InitOf(submitted, ws, inputs, ExtractorIds, AllFaults)

\* One document submitted with one extractor, one worker.
Init == InitWith({"j1"}, {"w1"}, {NonePages})

(***************************************************************************)
(* Circuit breaker (tasks.py)                                              *)
(***************************************************************************)
\* a check that opens only above the threshold
check_circuit_breaker_above(extractor_type) ==
    /\ cb_count[extractor_type] # 0
    /\ cb_count[extractor_type] > CIRCUIT_BREAKER_THRESHOLD

check_circuit_breaker(extractor_type) ==
    /\ cb_count[extractor_type] # 0
    /\ cb_count[extractor_type] >= CIRCUIT_BREAKER_THRESHOLD

\* a store operation that sets the counter instead of incrementing it
redis_set_one(x) ==
    /\ cb_count' = [cb_count EXCEPT ![x] = 1]
    /\ UNCHANGED cb_ttl

\* an increment of one key that all extractors share
redis_incr_shared_key(x) ==
    /\ cb_count' = [y \in ExtractorIds |-> cb_count[y] + 1]
    /\ UNCHANGED cb_ttl

\* redis_client.incr(circuit_key)
redis_incr(x) ==
    /\ cb_count' = [cb_count EXCEPT ![x] = @ + 1]
    /\ UNCHANGED cb_ttl

\* redis_client.expire(circuit_key, CIRCUIT_BREAKER_TIMEOUT): no effect on a
\* key that does not exist
redis_expire(x) ==
    /\ cb_ttl' = [cb_ttl EXCEPT ![x] =
                    IF cb_count[x] # 0 THEN CIRCUIT_BREAKER_TIMEOUT ELSE @]
    /\ UNCHANGED cb_count

\* a reset that clears the key only when the breaker is open
reset_circuit_breaker_if_open(extractor_type) ==
    IF cb_count[extractor_type] >= CIRCUIT_BREAKER_THRESHOLD
    THEN /\ cb_count' = [cb_count EXCEPT ![extractor_type] = 0]
         /\ cb_ttl' = [cb_ttl EXCEPT ![extractor_type] = 0]
    ELSE UNCHANGED <<cb_count, cb_ttl>>

\* a reset that clears the counter and leaves the expiry running
reset_circuit_breaker_keeping_expiry(extractor_type) ==
    /\ cb_count' = [cb_count EXCEPT ![extractor_type] = 0]
    /\ UNCHANGED cb_ttl

\* redis_client.delete(circuit_key)
reset_circuit_breaker(extractor_type) ==
    /\ cb_count' = [cb_count EXCEPT ![extractor_type] = 0]
    /\ cb_ttl' = [cb_ttl EXCEPT ![extractor_type] = 0]

(***************************************************************************)
(* process_document_with_extractor (tasks.py), one step per operation      *)
(***************************************************************************)
\* A job row that is not in the table yet: not created, or added to the
\* session of the upload request and not committed.
NO_ROW == "NO_ROW"
ADDED == "ADDED"

\* the rows of document_extraction_jobs that a worker's session sees
committed(j) == job[j].status \in ExtractionStatus

\* update(DocumentExtractionJob).where(uuid == job_uuid).values(...): the
\* statement changes the rows it matches, which is none when the row of the
\* job is not committed
update_job(j, values) ==
    IF committed(j) THEN [job EXCEPT ![j] = values] ELSE job

\* an except clause that goes straight to the breaker, without the FAILURE
\* write
RaiseSkippingWrite(w, e, i) ==
    /\ pc' = [pc EXCEPT ![w] = "record_incr"]
    /\ inv' = [inv EXCEPT ![w] = [i EXCEPT !.exc = e, !.raised_at = pc[w]]]

\* an exception leaves the try block: control goes to the except clause
Raise(w, e, i) ==
    /\ pc' = [pc EXCEPT ![w] = "fail_write"]
    /\ inv' = [inv EXCEPT ![w] = [i EXCEPT !.exc = e, !.raised_at = pc[w]]]

Goto(w, l, i) ==
    /\ pc' = [pc EXCEPT ![w] = l]
    /\ inv' = [inv EXCEPT ![w] = i]

\* A worker takes a due message and runs the task up to the breaker check.
Start(w) ==
    /\ w \in pool
    /\ pc[w] = "idle"
    /\ \E m \in queue :
        /\ m.delay = 0
        /\ queue' = queue \ {m}
        /\ attempts' = [attempts EXCEPT ![m.job] = @ + 1]
        /\ LET i == [IdleInv EXCEPT !.job = m.job, !.ext = m.ext,
                                    !.retries = m.retries, !.task = m.task,
                                    !.attempt = attempts[m.job] + 1,
                                    !.cb_at_start = cb_count[m.ext],
                                    !.recorded_at_start = recorded[m.ext]]
           IN  IF check_circuit_breaker(m.ext)
               THEN Raise(w, "RuntimeError", [i EXCEPT !.rejected = TRUE])
               ELSE Goto(w, "processing", i)
    /\ UNCHANGED <<fn, conf, db, redis, recorded, failed>>

\* status=PROCESSING, start_time=start_time; commit
WriteProcessing(w) ==
    /\ pc[w] = "processing"
    /\ \/ /\ job' = update_job(inv[w].job,
                                [job[inv[w].job] EXCEPT !.status = PROCESSING,
                                                        !.start_time = SET])
          /\ Goto(w, "resolve",
                  [inv[w] EXCEPT !.writes = Append(@, PROCESSING)])
       \/ /\ "db" \in faults
          /\ Raise(w, "OperationalError", inv[w])
          /\ UNCHANGED job
    /\ UNCHANGED <<fn, conf, rows, redis, queue, hist>>

\* the document row, then the shared volume or the local path
ResolveFile(w) ==
    /\ pc[w] = "resolve"
    /\ \/ Goto(w, "read", inv[w])
       \/ /\ "fs" \in faults
          /\ \E e \in {"RuntimeError", "PermissionError"} : Raise(w, e, inv[w])
    /\ UNCHANGED <<fn, conf, db, redis, queue, hist>>

\* get_reader(extractor_type), reader.read(local_file_path) and the branch on
\* supports_webhook() and on the type of what read() returned
Read(w) ==
    /\ pc[w] = "read"
    /\ LET x == inv[w].ext
           i1 == [inv[w] EXCEPT !.calls = Append(@, "get_reader")]
           i2 == [i1 EXCEPT !.calls = Append(@, "read")]
       IN  IF x \notin READER_MAP
           THEN Raise(w, "ValueError", i1)
           ELSE \/ /\ x \notin {"PyPDF2", "gpt-4o"}
                   /\ \E e \in {"RuntimeError", "ConnectionError"} :
                        Raise(w, e, i2)
                \/ \E o \in Outcomes(read_failure_pages(x)) :
                     LET r == o.pages
                         i3 == [i2 EXCEPT
                                  !.backend_failed = o.backend_failed]
                     IN  IF supports_webhook(x)
                         THEN Goto(w, "persist",
                                   [i2 EXCEPT !.page_contents = NonePages])
                         ELSE IF read_returns_dict(x)
                         THEN Goto(w, "persist",
                                   [i3 EXCEPT !.page_contents = r,
                                              !.last_result = r])
                         ELSE Goto(w, "poll",
                                   [i3 EXCEPT !.last_result =
                                       IF x = "PyPDF2" THEN r ELSE NoPages])
    /\ UNCHANGED <<fn, conf, db, redis, queue, hist>>

\* status = reader.get_status(job_id) and the test of the poll loop.  With
\* `bounded` the backend answers a non-terminal status at most MaxPolls
\* times; without it the backend may go on, and the history of the
\* invocation stops growing after MaxPolls such answers.
PollWith(w, bounded) ==
    /\ pc[w] = "poll"
    /\ \E status \in get_status_answers(inv[w].ext) :
        LET logged == inv[w].polls < MaxPolls \/ ~poll_continues(status)
            i == IF logged
                 THEN [inv[w] EXCEPT !.calls = Append(@, "get_status"),
                                     !.statuses = Append(@, status)]
                 ELSE inv[w]
        IN  IF poll_continues(status)
            THEN /\ bounded => inv[w].polls < MaxPolls
                 /\ Goto(w, "sleep",
                         [i EXCEPT !.polls = IF @ < MaxPolls THEN @ + 1 ELSE @])
            ELSE IF status = "failed"
            THEN Raise(w, "RuntimeError", i)
            ELSE Goto(w, "fetch", i)
    /\ UNCHANGED <<fn, conf, db, redis, queue, hist>>

Poll(w) == PollWith(w, TRUE)

\* the same with a backend that may answer a non-terminal status for ever
PollUnbounded(w) == PollWith(w, FALSE)

\* time.sleep(5) in the poll loop
Sleep(w) ==
    /\ pc[w] = "sleep"
    /\ Goto(w, "poll",
            [inv[w] EXCEPT !.sleeps = IF @ < MaxPolls THEN @ + 1 ELSE @,
                           !.now = IF inv[w].sleeps < MaxPolls
                                   THEN @ + 5 ELSE @])
    /\ UNCHANGED <<fn, conf, db, redis, queue, hist>>

\* one extractor instance shared by the invocations: _last_result is what
\* the read() of any running invocation stored last
instance_result_shared(w) ==
    LET others == {v \in Workers \ {w} : inv[v].last_result # NoPages}
    IN  IF others = {} THEN inv[w].last_result
        ELSE inv[CHOOSE v \in others : TRUE].last_result

\* self._last_result of the instance that get_reader constructed for this
\* invocation (READER_MAP[extractor_type]() makes a new one on every call)
instance_result(w) == inv[w].last_result

\* page_contents = reader.get_result(job_id)
Fetch(w) ==
    /\ pc[w] = "fetch"
    /\ LET i == [inv[w] EXCEPT !.calls = Append(@, "get_result")]
       IN  IF status_immediate(inv[w].ext)
           THEN Goto(w, "persist",
                     [i EXCEPT !.page_contents = instance_result(w)])
           ELSE \E o \in Outcomes(get_result_failure_pages(inv[w].ext)) :
                    Goto(w, "persist",
                         [i EXCEPT !.page_contents = o.pages,
                                   !.last_result = o.pages,
                                   !.backend_failed = o.backend_failed])
    /\ UNCHANGED <<fn, conf, db, redis, queue, hist>>

\* a validator that accepts every page map that has a page
has_meaningful_content_any_page(pages) ==
    /\ pages.kind = "dict"
    /\ pages.map # <<>>

\* _has_meaningful_content(pages): false for None and for the empty map;
\* true when, for some page, the first truthy value among COMBINED, TEXT and
\* LATEX has a non-blank character
has_meaningful_content(pages) ==
    /\ pages.kind = "dict"
    /\ pages.map # <<>>
    /\ \E p \in DOMAIN pages.map :
        strip(first_of_combined_text_latex(pages.map[p])) # "empty"

\* rows numbered from 0 instead of by the keys of the map
page_rows_zero_based(attempt, pages) ==
    {[attempt |-> attempt, page_number |-> p - 1, content |-> pages.map[p],
      deleted_at |-> NULL] : p \in DOMAIN pages.map}

\* the DocumentPageContent rows the loop over page_contents.items() adds
page_rows(attempt, pages) ==
    {[attempt |-> attempt, page_number |-> p, content |-> pages.map[p],
      deleted_at |-> NULL] : p \in DOMAIN pages.map}

\* validation, db.add of every page, latency and cost, status=SUCCESS; commit
Persist(w) ==
    /\ pc[w] = "persist"
    /\ LET j == inv[w].job
           pages == inv[w].page_contents
           latency == latency_ms_of(inv[w].start_time, inv[w].now)
       IN  IF ~has_meaningful_content(pages)
           THEN /\ Raise(w, "RuntimeError", inv[w])
                /\ UNCHANGED db
           ELSE \/ /\ job' = update_job(j,
                                [job[j] EXCEPT !.status = SUCCESS,
                                               !.end_time = SET,
                                               !.latency_ms = SET,
                                               !.cost = calculate_extraction_cost(
                                                            inv[w].ext,
                                                            Len(pages.map))])
                   /\ rows' = [rows EXCEPT ![j] =
                                @ \cup page_rows(inv[w].attempt, pages)]
                   /\ Goto(w, "reset",
                           [inv[w] EXCEPT !.writes = Append(@, SUCCESS),
                                          !.latency_ms = latency])
                \/ /\ "db" \in faults
                   /\ Raise(w, "OperationalError", inv[w])
                   /\ UNCHANGED db
    /\ UNCHANGED <<fn, conf, redis, queue, hist>>

\* reset_circuit_breaker(extractor_type) on the success path
ResetBreaker(w) ==
    /\ pc[w] = "reset"
    /\ \/ /\ reset_circuit_breaker(inv[w].ext)
          /\ recorded' = [recorded EXCEPT ![inv[w].ext] = 0]
          /\ Goto(w, "complete",
                  [inv[w] EXCEPT !.reset_from = cb_count[inv[w].ext]])
       \/ /\ "redis" \in faults
          /\ Raise(w, "RedisError", inv[w])
          /\ UNCHANGED <<redis, recorded>>
    /\ UNCHANGED <<fn, conf, db, queue, failed, attempts>>

\* mark_task_complete(document_uuid, job_uuid)
MarkComplete(w) ==
    /\ pc[w] = "complete"
    /\ \/ Goto(w, "done", [inv[w] EXCEPT !.told_complete = TRUE])
       \/ /\ "redis" \in faults
          /\ Raise(w, "RedisError", inv[w])
    /\ UNCHANGED <<fn, conf, db, redis, queue, hist>>

\* except clause: rollback, then status=FAILURE with end time, latency and
\* cost 0; an error of this write is logged and the handler goes on
FailWrite(w) ==
    /\ pc[w] = "fail_write"
    /\ LET j == inv[w].job
       IN  \/ /\ job' = update_job(j, [job[j] EXCEPT !.status = FAILURE,
                                                      !.end_time = SET,
                                                      !.latency_ms = SET,
                                                      !.cost = 0])
              /\ Goto(w, "record_incr",
                      [inv[w] EXCEPT !.writes = Append(@, FAILURE)])
           \/ /\ "db" \in faults
              /\ Goto(w, "record_incr", [inv[w] EXCEPT !.write_failed = TRUE])
              /\ UNCHANGED job
    /\ UNCHANGED <<fn, conf, rows, redis, queue, hist>>

\* record_extractor_failure, first store operation
RecordIncr(w) ==
    /\ pc[w] = "record_incr"
    /\ redis_incr(inv[w].ext)
    /\ recorded' = [recorded EXCEPT ![inv[w].ext] = @ + 1]
    /\ Goto(w, "record_expire",
            [inv[w] EXCEPT !.recorded_failures = @ + 1])
    /\ UNCHANGED <<fn, conf, db, queue, failed, attempts>>

\* record_extractor_failure, second store operation
RecordExpire(w) ==
    /\ pc[w] = "record_expire"
    /\ redis_expire(inv[w].ext)
    /\ Goto(w, "classify", inv[w])
    /\ UNCHANGED <<fn, conf, db, queue, hist>>

\* self.retry(exc=e, countdown=..., max_retries=...): Celery puts the same
\* task arguments on the queue again unless the request has already been
\* retried max_retries times
RetryScheduledInclusive(retries, retry_config) ==
    retries <= retry_config.max_retries

RetryScheduled(retries, retry_config) == retries < retry_config.max_retries

\* is_infrastructure_error(e), mark_task_failed and raise or self.retry
Classify(w) ==
    /\ pc[w] = "classify"
    /\ LET i == [inv[w] EXCEPT !.told_failed = TRUE]
           retry_config == get_retry_config(inv[w].ext)
       IN  IF is_infrastructure_error(inv[w].exc)
           THEN /\ Goto(w, "done", i)
                /\ UNCHANGED <<queue, failed>>
           ELSE /\ failed' = [failed EXCEPT ![i.job] = @ + 1]
                /\ IF RetryScheduled(inv[w].retries, retry_config)
                   THEN /\ queue' = queue \cup
                               {[Message(i.job, i.ext, i.retries + 1,
                                         retry_config.countdown)
                                    EXCEPT !.task = i.task]}
                        /\ Goto(w, "done",
                                [i EXCEPT !.retry_requested = TRUE,
                                          !.retry_scheduled = TRUE])
                   ELSE /\ Goto(w, "done",
                                [i EXCEPT !.retry_requested = TRUE])
                        /\ UNCHANGED queue
    /\ UNCHANGED <<fn, conf, db, redis, recorded, attempts>>

\* the task has returned or raised: the worker is free again
Finish(w) ==
    /\ pc[w] = "done"
    /\ Goto(w, "idle", IdleInv)
    /\ UNCHANGED <<fn, conf, db, redis, queue, hist>>

(***************************************************************************)
(* Time                                                                    *)
(***************************************************************************)
\* One unit of time passes: Redis counts down the expiry of the breaker keys
\* and removes a key whose time is up; Celery counts down the queued retries.
Tick ==
    /\ \/ \E x \in ExtractorIds : cb_ttl[x] > 0
       \/ \E m \in queue : m.delay > 0
    /\ cb_ttl' = [x \in ExtractorIds |->
                    IF cb_ttl[x] > 0 THEN cb_ttl[x] - 1 ELSE 0]
    /\ cb_count' = [x \in ExtractorIds |->
                    IF cb_ttl[x] = 1 THEN 0 ELSE cb_count[x]]
    /\ recorded' = [x \in ExtractorIds |->
                    IF cb_ttl[x] = 1 THEN 0 ELSE recorded[x]]
    /\ queue' = {[m EXCEPT !.delay = IF @ > 0 THEN @ - 1 ELSE 0] : m \in queue}
    /\ UNCHANGED <<fn, conf, db, pc, inv, failed, attempts>>

Next ==
    \/ \E w \in Workers :
        \/ Start(w)
        \/ WriteProcessing(w)
        \/ ResolveFile(w)
        \/ Read(w)
        \/ Poll(w)
        \/ Sleep(w)
        \/ Fetch(w)
        \/ Persist(w)
        \/ ResetBreaker(w)
        \/ MarkComplete(w)
        \/ FailWrite(w)
        \/ RecordIncr(w)
        \/ RecordExpire(w)
        \/ Classify(w)
        \/ Finish(w)
    \/ Tick

Spec == Init /\ [][Next]_vars

(***************************************************************************)
(* The job flow with a polled backend that need not ever finish            *)
(***************************************************************************)
LiveStep(w) ==
    \/ Start(w)
    \/ WriteProcessing(w)
    \/ ResolveFile(w)
    \/ Read(w)
    \/ PollUnbounded(w)
    \/ Sleep(w)
    \/ Fetch(w)
    \/ Persist(w)
    \/ ResetBreaker(w)
    \/ MarkComplete(w)
    \/ FailWrite(w)
    \/ RecordIncr(w)
    \/ RecordExpire(w)
    \/ Classify(w)
    \/ Finish(w)

NextLive ==
    \/ \E w \in Workers : LiveStep(w)
    \/ Tick

\* A worker that can take a step of its invocation takes it, and time goes on.
LiveSpec ==
    /\ Init
    /\ [][NextLive]_vars
    /\ \A w \in Workers : WF_vars(LiveStep(w))
    /\ WF_vars(Tick)

(***************************************************************************)
(* The retry endpoint (main.py) next to the workers                        *)
(***************************************************************************)
\* POST .../extraction-jobs/{job_uuid}/retry: a job that is not FAILURE is
\* refused with status 400 and nothing changes; otherwise the row is reset,
\* its page rows are marked deleted, the transaction commits and a new task
\* is put on the queue (an error of the broker is logged and swallowed).
retry_extraction_job(j) ==
    /\ manual[j] < MaxManualRetries
    /\ extractor_of[j] # "none"
    /\ job[j].status = FAILURE
    /\ job' = [job EXCEPT ![j] =
                [status |-> NOT_STARTED, start_time |-> NULL,
                 end_time |-> NULL, latency_ms |-> NULL, cost |-> NULL]]
    /\ rows' = [rows EXCEPT ![j] = {[r EXCEPT !.deleted_at = SET] : r \in @}]
    /\ manual' = [manual EXCEPT ![j] = @ + 1]
    /\ \/ queue' = queue \cup {[Message(j, extractor_of[j], 0, 0)
                                   EXCEPT !.task = manual[j] + 1]}
       \/ /\ "broker" \in faults
          /\ UNCHANGED queue
    /\ UNCHANGED <<fn, pool, extractor_of, faults, redis, pc, inv, hist>>

NextRetry ==
    \/ Next
    \/ \E j \in Jobs : retry_extraction_job(j)

\* One job of a polled extractor, two workers, and a user of the retry
\* endpoint; the database, the store and the file system answer every call.
InitRetry == InitOf({"j1"}, Workers, {NonePages}, {"Mathpix"}, {"broker"})

RetrySpec == InitRetry /\ [][NextRetry]_vars

(***************************************************************************)
(* Two jobs of the same extractor on two workers                           *)
(***************************************************************************)
\* both jobs name the same extractor, one whose read() returns True or a
\* polled one; the database, the store and the file system answer every call
InitConcurrent ==
    /\ InitOf(Jobs, Workers, {NonePages}, {"PyPDF2", "Mathpix"}, {})
    /\ \A j \in Jobs : extractor_of[j] = extractor_of["j1"]

\* the two jobs name different extractors
InitMixed ==
    /\ InitOf(Jobs, Workers, {NonePages}, {"PyPDF2", "Mathpix"}, {})
    /\ extractor_of["j1"] = "Mathpix"
    /\ extractor_of["j2"] = "PyPDF2"

MixedSpec == InitMixed /\ [][Next]_vars

ConcurrentSpec == InitConcurrent /\ [][Next]_vars

(***************************************************************************)
(* Submission (main.py): upload_multiple_documents, phase 3                *)
(***************************************************************************)
\* start_background_tasks_for_documents: db.add of every job, then .delay of
\* every job; nothing is committed here
start_background_tasks_for_documents ==
    LET created == {j \in Jobs : extractor_of[j] # "none"}
    IN  /\ \A j \in created : job[j].status = NO_ROW
        /\ created # {}
        /\ job' = [j \in Jobs |->
                    IF j \in created
                    THEN [job[j] EXCEPT !.status = ADDED] ELSE job[j]]
        /\ queue' = queue \cup
                        {Message(j, extractor_of[j], 0, 0) : j \in created}
        /\ UNCHANGED <<fn, conf, rows, redis, pc, inv, hist>>

\* await db.commit()  # Commit the extraction jobs
commit_extraction_jobs ==
    /\ \E j \in Jobs : job[j].status = ADDED
    /\ job' = [j \in Jobs |->
                IF job[j].status = ADDED
                THEN [job[j] EXCEPT !.status = NOT_STARTED] ELSE job[j]]
    /\ UNCHANGED <<fn, conf, rows, redis, queue, pc, inv, hist>>

NextSubmit ==
    \/ Next
    \/ start_background_tasks_for_documents
    \/ commit_extraction_jobs

\* One upload request with two jobs of one document, before phase 3: no job
\* row and no task yet. One worker serves the queue.
InitSubmit ==
    /\ pool = {"w1"}
    /\ faults = {}
    /\ manual = [j \in Jobs |-> 0]
    /\ extractor_of \in [Jobs -> {"PyPDF2", "Mathpix"}]
    /\ job = [j \in Jobs |->
                [status |-> NO_ROW, start_time |-> NULL,
                 end_time |-> NULL, latency_ms |-> NULL, cost |-> NULL]]
    /\ rows = [j \in Jobs |-> {}]
    /\ cb_count = [x \in ExtractorIds |-> 0]
    /\ cb_ttl = [x \in ExtractorIds |-> 0]
    /\ queue = {}
    /\ pc = [w \in Workers |-> "idle"]
    /\ inv = [w \in Workers |-> IdleInv]
    /\ recorded = [x \in ExtractorIds |-> 0]
    /\ failed = [j \in Jobs |-> 0]
    /\ attempts = [j \in Jobs |-> 0]
    /\ call = NonePages
    /\ ret = "pending"

SubmitSpec == InitSubmit /\ [][NextSubmit]_vars

\* models/enums.py: the values of the two enumerations, in declaration order
PDFExtractorType ==
    <<"PyPDF2", "PyMuPDF", "PDFPlumber", "Camelot", "Tesseract", "Textract",
      "Mathpix", "Tabula", "Unstructured", "gpt-4o-mini", "gpt-4o",
      "gpt-4-turbo", "MarkItDown", "LlamaParse">>

ImageExtractorType ==
    <<"Tesseract", "Textract", "Mathpix", "gpt-4o-mini", "gpt-4o",
      "gpt-4-turbo">>

Range(seq) == {seq[k] : k \in DOMAIN seq}

\* start_background_tasks_for_documents: the extractor names for which a job
\* is created and a task enqueued, for one document
file_extractors(file_type, selected_extractor_list) ==
    LET of_type == IF file_type = "pdf"
                   THEN PDFExtractorType ELSE ImageExtractorType
        Valid(ext) == ext \in Range(of_type)
    IN  IF selected_extractor_list # <<>>
        THEN SelectSeq(selected_extractor_list, Valid)
        ELSE of_type

\* the longest selection drawn
MaxSelected == 2

\* Documents of both file types with every selection of up to MaxSelected
\* names, among them a name that no enumeration has.
SelectionCalls ==
    LET names == Range(PDFExtractorType) \cup {"Docling"}
        lists == UNION {[1..n -> names] : n \in 0..MaxSelected}
    IN  [fn : {"start_background_tasks_for_documents"},
         file_type : {"pdf", "image"},
         selected_extractor_list : lists]

InitSelection == InitOf({}, {}, SelectionCalls, {}, {})

\* the jobs created for the document of the call
CreateJobs ==
    /\ ret = "pending"
    /\ call.fn = "start_background_tasks_for_documents"
    /\ ret' = file_extractors(call.file_type, call.selected_extractor_list)
    /\ UNCHANGED <<call, conf, db, redis, queue, pc, inv, hist>>

SelectionSpec == InitSelection /\ [][CreateJobs]_vars

(***************************************************************************)
(* _has_meaningful_content called on its own                               *)
(***************************************************************************)
\* None, the empty map, every one-page map over all bodies, and the maps of
\* more pages over the bodies of the job flow
ValidatorInputs ==
    {NonePages} \cup PageMapsOver(AllBodies, 1)
                \cup PageMapsOver(PageBodies, MaxPages + 1)

InitValidator == InitWith({}, {}, ValidatorInputs)

\* if not _has_meaningful_content(page_contents)
Validate ==
    /\ ret = "pending"
    /\ ret' = IF has_meaningful_content(call) THEN "True" ELSE "False"
    /\ UNCHANGED <<call, conf, db, redis, queue, pc, inv, hist>>

NextValidator == Validate

ValidatorSpec == InitValidator /\ [][NextValidator]_vars

(***************************************************************************)
(* The extractor classes called on their own (extractors/*.py)             *)
(***************************************************************************)
\* the registered identifiers whose class is among the sources
SourcedExtractors == READER_MAP \ {"LlamaParse"}

\* {}
EmptyMap == [kind |-> "dict", map |-> <<>>]
\* a page map with text, as read() or the lines.json of Mathpix yields it
TextPages ==
    [kind |-> "dict",
     map |-> <<[t \in Tags |-> IF t = "LATEX" THEN "text" ELSE "absent"]>>]
\* the call did not return: it raised e
Raised(e) == [kind |-> e, map |-> <<>>]

\* get_result(job_id) of the class of self.ext: what it returns and the
\* _last_result it leaves.  Mathpix fetches <id>.lines.json: a body with a
\* pages list is parsed and stored, a body without one gives the placeholder
\* page (stored as well), and an HTTP or connection error is caught and
\* gives the placeholder page; Textract returns `_last_result or {}`; every
\* other class returns _last_result, which is None until read() has run.
get_result(self) ==
    IF self.ext = "Mathpix"
    THEN CASE self.remote = "pages" ->
                [value |-> TextPages, last_result |-> TextPages]
           [] self.remote = "no_pages" ->
                [value |-> PlaceholderPages, last_result |-> PlaceholderPages]
           [] OTHER ->
                [value |-> PlaceholderPages, last_result |-> self.last_result]
    ELSE IF self.ext = "Textract"
    THEN [value |-> IF self.last_result.kind = "dict"
                       /\ self.last_result.map # <<>>
                    THEN self.last_result ELSE EmptyMap,
          last_result |-> self.last_result]
    ELSE [value |-> self.last_result, last_result |-> self.last_result]

\* handle_webhook(payload) of the class of self.ext: Textract returns {},
\* every other class among the sources raises NotImplementedError
handle_webhook(self) ==
    IF self.ext = "Textract"
    THEN [value |-> EmptyMap, last_result |-> self.last_result]
    ELSE [value |-> Raised("NotImplementedError"),
          last_result |-> self.last_result]

\* get_status(job_id) of the class of self.ext: Mathpix asks the service
\* ('completed' gives 'succeeded', 'error' and every exception give 'failed',
\* anything else 'processing'); every other class among the sources returns
\* 'succeeded'.  No class touches _last_result.
get_status_by_result(self) ==
    [value |-> IF self.last_result = NonePages THEN "processing"
               ELSE "succeeded",
     last_result |-> self.last_result]

get_status(self) ==
    [value |-> IF self.ext = "Mathpix"
               THEN CASE self.remote = "pages" -> "succeeded"
                      [] self.remote = "no_pages" -> "processing"
                      [] OTHER -> "failed"
               ELSE "succeeded",
     last_result |-> self.last_result]

\* what get_reader has not yet returned
NoInstance == [class |-> "none", model_name |-> "none"]

\* an instance of a class that takes no constructor argument
InstanceOf(c) == [class |-> c, model_name |-> "none"]

\* READER_MAP: the class, or the lambda with its model name, of each key
READER_FACTORY ==
    ("PyMuPDF" :> InstanceOf("PyMuPDFExtractor"))
    @@ ("PDFPlumber" :> InstanceOf("PDFPlumberExtractor"))
    @@ ("PyPDF2" :> InstanceOf("PyPDF2Extractor"))
    @@ ("Tesseract" :> InstanceOf("TesseractExtractor"))
    @@ ("Textract" :> InstanceOf("TextractExtractor"))
    @@ ("MarkItDown" :> InstanceOf("MarkItDownExtractor"))
    @@ ("LlamaParse" :> InstanceOf("LlamaParseExtractor"))
    @@ ("Mathpix" :> InstanceOf("MathpixExtractor"))
    @@ ("gpt-4o-mini" :> [class |-> "OpenAIVisionExtractor",
                          model_name |-> "gpt-4o-mini"])
    @@ ("gpt-4o" :> [class |-> "OpenAIVisionExtractor",
                     model_name |-> "gpt-4o"])
    @@ ("gpt-4-turbo" :> [class |-> "OpenAIVisionExtractor",
                          model_name |-> "gpt-4-turbo"])

\* a registry whose OpenAI entries all construct the same model
get_reader_one_model(extractor_type) ==
    IF extractor_type \notin DOMAIN READER_FACTORY
    THEN [class |-> "ValueError", model_name |-> "none"]
    ELSE [READER_FACTORY[extractor_type] EXCEPT !.model_name =
            IF @ = "none" THEN @ ELSE "gpt-4o"]

\* get_reader(extractor_type): ValueError for a key READER_MAP lacks, else a
\* new instance READER_MAP[extractor_type]()
get_reader(extractor_type) ==
    IF extractor_type \notin DOMAIN READER_FACTORY
    THEN [class |-> "ValueError", model_name |-> "none"]
    ELSE READER_FACTORY[extractor_type]

\* a method called on an instance: the class, the _last_result of the
\* instance (None before read()), what the remote service answers to a
\* fetch, and the webhook payload; or get_reader called with an identifier
ExtractorCalls ==
    [fn : {"get_result", "handle_webhook", "get_status"},
     ext : SourcedExtractors,
     last_result : {NonePages, EmptyMap, TextPages},
     remote : {"pages", "no_pages", "http_error"},
     payload : {"empty", "result"},
     value : {NoPages}, status : {"none"}, calls : {0},
     instance : {NoInstance}]
    \cup
    [fn : {"get_reader"},
     ext : READER_MAP \cup ExtractorIds,
     last_result : {NonePages}, remote : {"pages"}, payload : {"empty"},
     value : {NoPages}, status : {"none"}, calls : {0},
     instance : {NoInstance}]

InitExtractor == InitOf({}, {}, ExtractorCalls, {}, {})

\* the outcome of the call is kept: the value, the state of the instance,
\* and whether the call returned or raised
Outcome(out) ==
    /\ ret = "pending"
    /\ call' = [call EXCEPT !.value = out.value,
                            !.last_result = out.last_result]
    /\ ret' = IF out.value.kind \in DOMAIN ExcBases
              THEN "raised" ELSE "returned"
    /\ UNCHANGED <<conf, db, redis, queue, pc, inv, hist>>

GetResult ==
    /\ call.fn = "get_result"
    /\ Outcome(get_result(call))

HandleWebhook ==
    /\ call.fn = "handle_webhook"
    /\ Outcome(handle_webhook(call))

\* get_status may be called again and again on the same instance
GetStatus ==
    /\ call.fn = "get_status"
    /\ call.calls < MaxCalls
    /\ LET out == get_status(call)
       IN  call' = [call EXCEPT !.status = out.value,
                                !.last_result = out.last_result,
                                !.calls = @ + 1]
    /\ ret' = "returned"
    /\ UNCHANGED <<conf, db, redis, queue, pc, inv, hist>>

GetReader ==
    /\ call.fn = "get_reader"
    /\ ret = "pending"
    /\ call' = [call EXCEPT !.instance = get_reader(call.ext)]
    /\ ret' = IF get_reader(call.ext).class \in DOMAIN ExcBases
              THEN "raised" ELSE "returned"
    /\ UNCHANGED <<conf, db, redis, queue, pc, inv, hist>>

NextExtractor == GetResult \/ HandleWebhook \/ GetStatus \/ GetReader

ExtractorSpec == InitExtractor /\ [][NextExtractor]_vars

(***************************************************************************)
(* Properties                                                              *)
(***************************************************************************)
Active(w) == inv[w].job # "none"
InfrastructureClassed(e) == \E c \in infrastructure_errors : c \in ExcBases[e]
MaxRetriesOf(j) ==
    IF extractor_of[j] \in DOMAIN EXTRACTOR_RETRY_CONFIG
    THEN EXTRACTOR_RETRY_CONFIG[extractor_of[j]].max_retries
    ELSE DEFAULT_RETRY_CONFIG.max_retries
CountdownOf(x) ==
    IF x \in DOMAIN EXTRACTOR_RETRY_CONFIG
    THEN EXTRACTOR_RETRY_CONFIG[x].countdown
    ELSE DEFAULT_RETRY_CONFIG.countdown
Stepped(w) == pc'[w] # pc[w]

\* C1: within one invocation FAILURE is written to the job only after
\* PROCESSING was written in the same invocation.
C1_FailureOnlyAfterProcessing ==
    \A w \in Workers : \A k \in DOMAIN inv[w].writes :
        inv[w].writes[k] = FAILURE =>
            \E m \in 1..(k - 1) : inv[w].writes[m] = PROCESSING

\* C2: once SUCCESS is committed for a job, no later step of the invocation
\* and no scheduled retry changes the job's status.
C2_SuccessNeverReversed ==
    [][\A j \in Jobs : job[j].status = SUCCESS => job'[j].status = SUCCESS]_vars

\* C3: an invocation that found the breaker counter at or above the threshold
\* when it started makes no extractor call (get_reader, read, get_status,
\* get_result).
C3_OpenBreakerNoExtractorCall ==
    \A w \in Workers :
        Active(w) /\ inv[w].cb_at_start >= CIRCUIT_BREAKER_THRESHOLD
            => inv[w].calls = <<>>

C3_Witness ==
    \E w \in Workers :
        /\ inv[w].cb_at_start >= CIRCUIT_BREAKER_THRESHOLD
        /\ pc[w] = "done"

\* C4: an invocation rejected by the open breaker does not call self.retry
\* and schedules no re-execution.
C4_RejectedConsumesNoRetry ==
    \A w \in Workers :
        inv[w].rejected => ~inv[w].retry_requested /\ ~inv[w].retry_scheduled

\* C5: the steps of an invocation rejected by the open breaker leave the job
\* row and the breaker counter and expiry of its extractor unchanged.
C5_RejectedLeavesStateUnchanged ==
    [][\A w \in Workers :
        inv[w].rejected /\ Stepped(w) =>
            /\ job'[inv[w].job] = job[inv[w].job]
            /\ cb_count'[inv[w].ext] = cb_count[inv[w].ext]
            /\ cb_ttl'[inv[w].ext] = cb_ttl[inv[w].ext]]_vars

\* C6: the breaker of an extractor is open exactly when at least
\* CIRCUIT_BREAKER_THRESHOLD failures were recorded for it since its last
\* success and since its key last expired; an invocation is rejected exactly
\* when it starts in such a state; and a counter always carries a running
\* expiry of at most CIRCUIT_BREAKER_TIMEOUT unless a failure is just being
\* recorded, so without new failures the breaker closes when the time is up.
C6_OpenExactlyAfterThresholdFailures ==
    /\ \A x \in ExtractorIds :
        check_circuit_breaker(x) <=> recorded[x] >= CIRCUIT_BREAKER_THRESHOLD
    /\ \A w \in Workers :
        Active(w) =>
            (inv[w].rejected <=>
                inv[w].recorded_at_start >= CIRCUIT_BREAKER_THRESHOLD)
    /\ \A x \in ExtractorIds :
        cb_count[x] > 0 =>
            \/ cb_ttl[x] \in 1..CIRCUIT_BREAKER_TIMEOUT
            \/ \E w \in Workers : pc[w] = "record_expire" /\ inv[w].ext = x

C6_Witness ==
    \E w \in Workers :
        /\ inv[w].rejected
        /\ inv[w].recorded_at_start >= CIRCUIT_BREAKER_THRESHOLD

\* C7: the reset on success leaves the counter of the extractor at 0 and the
\* breaker closed whatever the counter was, and the breaker is open only
\* after a full threshold of failures recorded since that reset.
C7_SuccessResetsCounter ==
    /\ [][\A w \in Workers :
            pc[w] = "reset" /\ pc'[w] = "complete" =>
                /\ cb_count'[inv[w].ext] = 0
                /\ ~(check_circuit_breaker(inv[w].ext))']_vars
    /\ [](\A x \in ExtractorIds :
            cb_count[x] >= CIRCUIT_BREAKER_THRESHOLD =>
                recorded[x] >= CIRCUIT_BREAKER_THRESHOLD)

C7_Witness ==
    \E w \in Workers : pc[w] = "complete" /\ inv[w].reset_from > 0

C9_RetryResubmitsFromStart ==
    /\ [][\A w \in Workers :
            pc[w] = "classify" /\ pc'[w] = "done" =>
                queue' \ queue \subseteq
                    {Message(inv[w].job, extractor_of[inv[w].job],
                             inv[w].retries + 1, CountdownOf(inv[w].ext))}]_vars
    /\ [][\A w \in Workers :
            pc[w] = "idle" /\ pc'[w] # "idle" =>
                /\ \E m \in queue \ queue' :
                    /\ m.delay = 0
                    /\ inv'[w].job = m.job
                    /\ inv'[w].ext = m.ext
                    /\ inv'[w].retries = m.retries
                /\ inv'[w].writes = <<>>
                /\ inv'[w].calls = <<>>
                /\ pc'[w] = IF cb_count[inv'[w].ext] >= CIRCUIT_BREAKER_THRESHOLD
                            THEN "fail_write" ELSE "processing"]_vars
    /\ [](\A w \in Workers :
            inv[w].retries > 0
            /\ inv[w].cb_at_start >= CIRCUIT_BREAKER_THRESHOLD =>
                /\ inv[w].calls = <<>>
                /\ \A k \in DOMAIN inv[w].writes :
                    inv[w].writes[k] # PROCESSING)

C9_Witness ==
    \E w \in Workers :
        /\ inv[w].retries > 0
        /\ inv[w].ext \in DOMAIN EXTRACTOR_RETRY_CONFIG
        /\ pc[w] = "processing"

Count(seq, x) == Cardinality({k \in DOMAIN seq : seq[k] = x})
Called(w, f) == \E k \in DOMAIN inv[w].calls : inv[w].calls[k] = f
NonTerminal(status) == status \notin {"succeeded", "failed"}
LastWrite(w) == inv[w].writes[Len(inv[w].writes)]
\* some value of the page body has a non-blank character
SomeNonBlank(content) == \E t \in Tags : content[t] = "text"

\* C11: an invocation that failed while resolving its input file (and whose
\* FAILURE write went through) leaves the job FAILURE and has neither
\* requested nor scheduled a retry.
C11_ResolveFailureNotRetried ==
    \A w \in Workers :
        pc[w] = "done" /\ inv[w].raised_at = "resolve" /\ ~inv[w].write_failed
            => /\ job[inv[w].job].status = FAILURE
               /\ ~inv[w].retry_requested
               /\ ~inv[w].retry_scheduled

\* C12: no step of an invocation whose extractor identifier has no entry in
\* READER_MAP changes the job row (status and timing fields).
C12_UnknownExtractorChangesNothing ==
    [][\A w \in Workers :
        Active(w) /\ inv[w].ext \notin READER_MAP /\ Stepped(w) =>
            job'[inv[w].job] = job[inv[w].job]]_vars

\* C13: an invocation in which get_reader raised for an unknown identifier
\* has neither requested nor scheduled a retry.
C13_UnknownExtractorNotRetried ==
    \A w \in Workers :
        pc[w] = "done" /\ inv[w].raised_at = "read"
        /\ inv[w].ext \notin READER_MAP
            => ~inv[w].retry_requested /\ ~inv[w].retry_scheduled

\* C14: when read() of a webhook extractor has returned, the invocation ends
\* without having called get_status or get_result, with the job still
\* PROCESSING, no failure recorded against the breaker and no retry scheduled.
C14_WebhookLeavesProcessing ==
    \A w \in Workers :
        pc[w] = "done" /\ supports_webhook(inv[w].ext)
        /\ inv[w].page_contents.kind # "unset"
            => /\ ~Called(w, "get_status")
               /\ ~Called(w, "get_result")
               /\ job[inv[w].job].status = PROCESSING
               /\ inv[w].recorded_failures = 0
               /\ ~inv[w].retry_requested
               /\ ~inv[w].retry_scheduled

\* C15: in an invocation whose read() returned a handle of an extractor
\* without webhooks: every status but the last observed is non-terminal and
\* each non-terminal status is followed by one sleep; get_status was called
\* once per status; get_result is called at most once, as the last extractor
\* call and only after 'succeeded', and exactly once when the invocation goes
\* on to persist; after 'failed' get_result is never called, no page row of
\* the attempt is committed, and the attempt fails with a RuntimeError raised
\* by the poll loop, which is not infrastructure-classed and requests a retry.
C15_PollLoop ==
    \A w \in Workers :
        Active(w) /\ ~supports_webhook(inv[w].ext)
        /\ ~read_returns_dict(inv[w].ext) =>
            LET st == inv[w].statuses
                n == Len(st)
                nonterminal == Cardinality({k \in 1..n : NonTerminal(st[k])})
            IN  /\ \A k \in 1..(n - 1) : NonTerminal(st[k])
                /\ inv[w].sleeps =
                     IF pc[w] = "sleep" THEN nonterminal - 1 ELSE nonterminal
                /\ inv[w].now - inv[w].start_time = 5 * inv[w].sleeps
                /\ Count(inv[w].calls, "get_status") = n
                /\ Count(inv[w].calls, "get_result") <= 1
                /\ Called(w, "get_result") =>
                    /\ n > 0
                    /\ st[n] = "succeeded"
                    /\ inv[w].calls[Len(inv[w].calls)] = "get_result"
                /\ pc[w] \in {"persist", "reset", "complete"} =>
                    Count(inv[w].calls, "get_result") = 1
                /\ n > 0 /\ st[n] = "failed" =>
                    /\ ~Called(w, "get_result")
                    /\ \A r \in rows[inv[w].job] : r.attempt # inv[w].attempt
                    /\ inv[w].exc = "RuntimeError"
                    /\ inv[w].raised_at = "poll"
                    /\ ~InfrastructureClassed(inv[w].exc)
                    /\ pc[w] = "done" => inv[w].retry_requested

C15_Witness ==
    \E w \in Workers :
        /\ inv[w].statuses = <<"processing", "processing", "succeeded">>
        /\ inv[w].sleeps = 2
        /\ pc[w] = "persist"
        /\ Count(inv[w].calls, "get_result") = 1

\* C16: an invocation that polls eventually leaves the poll loop.
C16_PollLoopTerminates ==
    \A w \in Workers :
        (pc[w] = "poll") ~> (pc[w] \notin {"poll", "sleep"})

\* the reference predicate: some page has some non-blank value under one of
\* the recognized tags
ReferenceMeaningful(pages) ==
    /\ pages.kind = "dict"
    /\ \E p \in DOMAIN pages.map : SomeNonBlank(pages.map[p])

\* C17: what _has_meaningful_content returns equals the reference predicate.
C17_ValidatorEqualsReference ==
    ret # "pending" => (ret = "True" <=> ReferenceMeaningful(call))

\* C18: while the last status an invocation wrote is FAILURE, no page row of
\* its attempt is committed.
C18_NoPagesOfFailedAttempt ==
    \A w \in Workers :
        Active(w) /\ inv[w].writes # <<>> /\ LastWrite(w) = FAILURE =>
            \A r \in rows[inv[w].job] : r.attempt # inv[w].attempt

\* C19: a job whose status is SUCCESS has a committed page row, and one with
\* a non-blank value; page rows are committed in exactly the steps that write
\* SUCCESS, which add a non-empty set of rows of the writing attempt, one of
\* them with a non-blank value, and remove none.
C19_SuccessCommitsWithPages ==
    /\ [](\A j \in Jobs :
            job[j].status = SUCCESS =>
                /\ rows[j] # {}
                /\ \E r \in rows[j] : SomeNonBlank(r.content))
    /\ [][\A j \in Jobs :
            /\ rows[j] \subseteq rows'[j]
            /\ rows'[j] # rows[j] <=>
                (job[j].status # SUCCESS /\ job'[j].status = SUCCESS)
            /\ rows'[j] # rows[j] =>
                /\ \E r \in rows'[j] \ rows[j] : SomeNonBlank(r.content)
                /\ \E w \in Workers :
                    /\ inv[w].job = j
                    /\ \A r \in rows'[j] \ rows[j] :
                        r.attempt = inv[w].attempt]_vars

C19_Witness ==
    \E j \in Jobs :
        /\ job[j].status = SUCCESS
        /\ Cardinality(rows[j]) = MaxPages
        /\ \A w \in Workers : pc[w] = "idle"

\* C20: an invocation of an extractor whose read() returns the page map never
\* calls get_status or get_result; its commit adds exactly one row per key of
\* the map, with the key as page number and the page's content, writes SUCCESS
\* with end time and latency, and the latency is the non-negative number of
\* milliseconds from start to end; if nothing raises the invocation ends
\* with the job SUCCESS.
C20_SyncDictPersistsEveryPage ==
    /\ [](\A w \in Workers :
            Active(w) /\ inv[w].ext = "PDFPlumber" =>
                /\ ~Called(w, "get_status")
                /\ ~Called(w, "get_result")
                /\ pc[w] = "done" /\ inv[w].exc = NoExc =>
                    /\ job[inv[w].job].status = SUCCESS
                    /\ inv[w].writes = <<PROCESSING, SUCCESS>>)
    /\ [][\A w \in Workers :
            inv[w].ext = "PDFPlumber" /\ pc[w] = "persist" /\ pc'[w] = "reset" =>
                LET j == inv[w].job
                    m == inv[w].page_contents.map
                    added == rows'[j] \ rows[j]
                IN  /\ rows[j] \subseteq rows'[j]
                    /\ Cardinality(added) = Len(m)
                    /\ \A p \in DOMAIN m :
                        \E r \in added : /\ r.page_number = p
                                         /\ r.content = m[p]
                                         /\ r.attempt = inv[w].attempt
                    /\ job'[j].status = SUCCESS
                    /\ job'[j].end_time = SET
                    /\ job'[j].latency_ms = SET
                    /\ inv'[w].latency_ms >= 0
                    /\ inv'[w].latency_ms =
                         (inv[w].now - inv[w].start_time) * 1000]_vars

C20_Witness ==
    \E w \in Workers :
        /\ inv[w].ext = "PDFPlumber"
        /\ pc[w] = "done"
        /\ inv[w].exc = NoExc
        /\ Cardinality(rows[inv[w].job]) = MaxPages

\* the per-page rates the contract names, in units of 1/10000: nothing for
\* the free local libraries, and the default only for an identifier that is
\* not a known extractor
ContractRate ==
    [x \in {"PyPDF2", "PyMuPDF", "PDFPlumber", "Tesseract"} |-> 0]
    @@ ("Textract" :> 15) @@ ("gpt-4o-mini" :> 50) @@ ("gpt-4o" :> 100)
    @@ ("gpt-4-turbo" :> 150)
    @@ [x \in ExtractorIds \ READER_MAP |-> 10]

\* the committed page rows of the latest attempt of a job that committed any
PersistedPages(j) ==
    {r \in rows[j] : \A q \in rows[j] : q.attempt <= r.attempt}

\* C21: a job that is SUCCESS carries the cost rate x pages of the extractor
\* it names, with the rate of the contract (0 for PyPDF2, PyMuPDF, PDFPlumber
\* and Tesseract); a job that is FAILURE carries cost 0.
C21_CostIsRateTimesPages ==
    \A j \in Jobs :
        /\ job[j].status = FAILURE => job[j].cost = 0
        /\ job[j].status = SUCCESS /\ extractor_of[j] \in DOMAIN ContractRate =>
            job[j].cost =
                ContractRate[extractor_of[j]] * Cardinality(PersistedPages(j))

\* an invocation in which an exception was raised after its PROCESSING write
FailedAfterProcessing(w) ==
    /\ Active(w)
    /\ inv[w].exc # NoExc
    /\ Count(inv[w].writes, PROCESSING) = 1

\* the positions after the FAILURE write of the except clause
AfterFailWrite == {"record_incr", "record_expire", "classify", "done"}

\* the row of the job is FAILURE with end time and latency set and cost 0
FailureWritten(w) ==
    /\ job[inv[w].job].status = FAILURE
    /\ job[inv[w].job].end_time = SET
    /\ job[inv[w].job].latency_ms = SET
    /\ job[inv[w].job].cost = 0

\* rollback first (page rows of the attempt are committed only with its
\* SUCCESS), then the breaker failure, then mark_task_failed, then the raise
\* or the retry; mark_task_complete has not returned
FailurePathSteps(w) ==
    /\ ~inv[w].told_complete
    /\ (\E r \in rows[inv[w].job] : r.attempt = inv[w].attempt) =>
            Count(inv[w].writes, SUCCESS) = 1
    /\ pc[w] \in {"fail_write", "record_incr"} =>
            /\ inv[w].recorded_failures = 0
            /\ ~inv[w].told_failed
            /\ ~inv[w].retry_requested
    /\ pc[w] \in {"record_expire", "classify"} =>
            /\ inv[w].recorded_failures = 1
            /\ ~inv[w].told_failed
            /\ ~inv[w].retry_requested
    /\ pc[w] = "done" =>
            /\ inv[w].recorded_failures = 1
            /\ inv[w].told_failed

SuccessCommitted(w) ==
    /\ job[inv[w].job].status = SUCCESS
    /\ job[inv[w].job].end_time = SET
    /\ job[inv[w].job].latency_ms = SET
    /\ job[inv[w].job].cost =
            calculate_extraction_cost(inv[w].ext,
                                      Len(inv[w].page_contents.map))

\* C23: an invocation reaches reset_circuit_breaker only by the step that
\* commits SUCCESS (with end time, latency and cost), and mark_task_complete
\* only by the step that deletes the breaker key; mark_task_complete returns
\* only in the last step, with SUCCESS still committed.  An invocation that
\* returned without an exception wrote PROCESSING and SUCCESS and nothing
\* else, recorded no breaker failure, did not call mark_task_failed and
\* asked for no retry, and no step of it raised the breaker counter.
C23_SuccessPathInOrder ==
    /\ [](\A w \in Workers :
            /\ pc[w] \in {"reset", "complete"} =>
                /\ SuccessCommitted(w)
                /\ LastWrite(w) = SUCCESS
                /\ ~inv[w].told_complete
            /\ inv[w].told_complete =>
                /\ pc[w] = "done"
                /\ inv[w].exc = NoExc
                /\ SuccessCommitted(w)
            /\ pc[w] = "done" /\ inv[w].exc = NoExc =>
                /\ inv[w].told_complete
                /\ inv[w].writes = <<PROCESSING, SUCCESS>>
                /\ inv[w].recorded_failures = 0
                /\ ~inv[w].told_failed
                /\ ~inv[w].retry_requested)
    /\ [][\A w \in Workers :
            /\ pc'[w] = "reset" /\ Stepped(w) =>
                /\ pc[w] = "persist"
                /\ job[inv[w].job].status # SUCCESS
                /\ job'[inv[w].job].status = SUCCESS
            /\ pc'[w] = "complete" /\ Stepped(w) =>
                /\ pc[w] = "reset"
                /\ cb_count'[inv[w].ext] = 0
                /\ cb_ttl'[inv[w].ext] = 0
            /\ inv'[w].told_complete /\ ~inv[w].told_complete =>
                pc[w] = "complete"
            /\ Active(w) /\ Stepped(w) /\ inv'[w].exc = NoExc =>
                \A x \in ExtractorIds : cb_count'[x] <= cb_count[x]]_vars

\* a retried invocation has returned after its commit, the reset of a
\* counter that stood at 1, and the completion notification
C23_Witness ==
    \E w \in Workers :
        /\ pc[w] = "done"
        /\ inv[w].exc = NoExc
        /\ inv[w].retries = 1
        /\ inv[w].reset_from = 1
        /\ inv[w].told_complete
        /\ SuccessCommitted(w)
        /\ cb_count[inv[w].ext] = 0

\* C24: in every state the failure counter of an extractor that is positive
\* has an expiry set.
C24_CounterAlwaysExpires ==
    \A x \in ExtractorIds : cb_count[x] > 0 => cb_ttl[x] > 0

\* C25: the counter of an extractor equals the number of failures recorded
\* for it since the last reset or expiry, and no worker calls reader.read for
\* an extractor whose counter is at or above the threshold.
C25_CheckAndIncrementAtomic ==
    /\ [](\A x \in ExtractorIds : cb_count[x] = recorded[x])
    /\ [][\A w \in Workers :
            pc[w] = "read" /\ Stepped(w) /\ inv[w].ext \in READER_MAP =>
                cb_count[inv[w].ext] < CIRCUIT_BREAKER_THRESHOLD]_vars

\* an execution of the task that has begun and not yet returned or raised
Running(w) == Active(w) /\ pc[w] # "done"

\* C26: no two executions of the task for the same job run at the same time.
C26_OneExecutionPerJob ==
    \A v, w \in Workers :
        v # w /\ Running(v) /\ Running(w) => inv[v].job # inv[w].job

\* the committed page rows of a job that are not marked deleted
LivePages(j) == {r \in rows[j] : r.deleted_at = NULL}

\* C27: a job has at most one committed page row that is not deleted for
\* each page number.
C27_PageNumbersUnique ==
    \A j \in Jobs :
        \A r, q \in LivePages(j) : r.page_number = q.page_number => r = q

\* C28: PROCESSING is written only over NOT_STARTED.
C28_ProcessingOnlyOverNotStarted ==
    [][\A j \in Jobs :
        job'[j].status = PROCESSING /\ job[j].status # PROCESSING =>
            job[j].status = NOT_STARTED]_vars

\* the extraction of the instance is not in the state 'succeeded': read() has
\* not run on it or, for the polled service, the result is not there
NotSucceeded(self) ==
    IF self.ext = "Mathpix"
    THEN self.remote # "pages"
    ELSE self.last_result = NonePages

\* C29: get_result called on an extractor whose extraction has not succeeded
\* raises.
C29_GetResultFailsUnlessSucceeded ==
    ret # "pending" /\ call.fn = "get_result" /\ NotSucceeded(call) =>
        ret = "raised"

\* C30: handle_webhook of an extractor that does not support webhooks raises
\* for every payload and leaves the instance as it was.
C30_HandleWebhookRaises ==
    [][call.fn = "handle_webhook" /\ ret' # ret
       /\ ~supports_webhook(call.ext) =>
            /\ ret' = "raised"
            /\ call'.last_result = call.last_result]_vars

\* the extractors that finish inside read()
SyncImmediate ==
    {"PyPDF2", "PyMuPDF", "PDFPlumber", "Tesseract", "Textract", "MarkItDown",
     "gpt-4o-mini", "gpt-4o", "gpt-4-turbo"}

\* C31: every get_status call on a sync-immediate extractor, whatever the
\* stored result of the instance and however often it was called before,
\* answers 'succeeded' and leaves the stored result as it was.
C31_SyncStatusSucceeded ==
    [][call.fn = "get_status" /\ call'.calls # call.calls
       /\ call.ext \in SyncImmediate =>
            /\ call'.status = "succeeded"
            /\ call.calls > 0 => call'.status = call.status
            /\ call'.last_result = call.last_result]_vars

\* the second call on an instance on which read() has not run
C31_Witness ==
    /\ call.fn = "get_status"
    /\ call.ext = "Textract"
    /\ call.last_result = NonePages
    /\ call.calls = 2
    /\ call.status = "succeeded"

\* C31, for the executor: an invocation of a sync-immediate extractor never
\* sleeps in the poll loop, and the only status it is answered is 'succeeded'.
C31_SyncNeverSleeps ==
    \A w \in Workers :
        Active(w) /\ inv[w].ext \in SyncImmediate =>
            /\ pc[w] # "sleep"
            /\ inv[w].sleeps = 0
            /\ \A k \in DOMAIN inv[w].statuses :
                inv[w].statuses[k] = "succeeded"

\* the identifiers of the OpenAI vision models
VisionModels == {"gpt-4o-mini", "gpt-4o", "gpt-4-turbo"}

\* C32: get_reader called with the identifier alone returns, for each of
\* gpt-4o-mini, gpt-4o and gpt-4-turbo, an OpenAI vision extractor whose
\* model_name is that identifier; for every other registered identifier an
\* instance of a class of its own, without a model name; and it raises for an
\* identifier that is not registered.
C32_RegistryBindsModel ==
    ret # "pending" /\ call.fn = "get_reader" =>
        /\ ret = "returned" <=> call.ext \in READER_MAP
        /\ call.ext \in VisionModels =>
            /\ call.instance.class = "OpenAIVisionExtractor"
            /\ call.instance.model_name = call.ext
        /\ call.ext \in READER_MAP \ VisionModels =>
            /\ call.instance.class # "OpenAIVisionExtractor"
            /\ call.instance.model_name = "none"
            /\ \A y \in READER_MAP \ {call.ext} :
                get_reader(y).class # call.instance.class

C32_Witness ==
    /\ call.fn = "get_reader"
    /\ call.ext = "gpt-4-turbo"
    /\ ret = "returned"
    /\ call.instance = [class |-> "OpenAIVisionExtractor",
                        model_name |-> "gpt-4-turbo"]

\* C33: a step in which a worker records a failure for its extractor (the
\* increment or the expiry) or resets its breaker leaves the counter, the
\* expiry and the answer of check_circuit_breaker of every other extractor
\* as they were.
C33_BreakerPerExtractor ==
    [][\A w \in Workers :
        Stepped(w) /\ pc[w] \in {"record_incr", "record_expire", "reset"} =>
            \A y \in ExtractorIds \ {inv[w].ext} :
                /\ cb_count'[y] = cb_count[y]
                /\ cb_ttl'[y] = cb_ttl[y]
                /\ check_circuit_breaker(y)' = check_circuit_breaker(y)]_vars

\* a worker has recorded a failure for its extractor while the counter of
\* another extractor stands at 1 with its expiry running
C33_Witness ==
    \E w \in Workers :
        /\ pc[w] = "classify"
        /\ cb_count[inv[w].ext] = 1
        /\ \E y \in ExtractorIds \ {inv[w].ext} :
            cb_count[y] = 1 /\ cb_ttl[y] = 1

\* C34: the retry endpoint accepts a job only in status FAILURE; the step
\* that accepts it sets the row to NOT_STARTED with start time, end time,
\* latency and cost cleared, marks every page row of the job deleted, and
\* puts exactly one new task of the job on the queue.
C34_ManualRetryResetsAndEnqueues ==
    [][\A j \in Jobs :
        manual'[j] # manual[j] =>
            /\ job[j].status = FAILURE
            /\ job'[j] = [status |-> NOT_STARTED, start_time |-> NULL,
                          end_time |-> NULL, latency_ms |-> NULL,
                          cost |-> NULL]
            /\ \A r \in rows'[j] : r.deleted_at # NULL
            /\ \E m \in queue' \ queue :
                /\ queue' = queue \cup {m}
                /\ m.job = j
                /\ m.ext = extractor_of[j]
                /\ m.retries = 0]_vars

\* C35: the row of a job is committed before its task can run: a worker that
\* executes the task of a job finds the row in the table, and a job whose
\* task has finished does not show NOT_STARTED.
C35_RowCommittedBeforeTaskRuns ==
    \A w \in Workers :
        Active(w) =>
            /\ committed(inv[w].job)
            /\ pc[w] = "done" => job[inv[w].job].status # NOT_STARTED

\* C36: every job created at submission names an identifier that the
\* registry resolves, for each file type and each selection, the empty
\* selection included.
C36_JobsNameRegisteredExtractors ==
    ret # "pending" =>
        \A k \in DOMAIN ret : ret[k] \in READER_MAP

\* C37: the result of an invocation is its own: an invocation of PyPDF2
\* starts with an instance that holds no result, and the pages its
\* get_result returns are those its own read stored, whatever the other
\* worker holds at that time.
C37_ResultOfOwnInstance ==
    \A w \in Workers :
        (Active(w) /\ inv[w].ext = "PyPDF2") =>
            /\ ~Called(w, "read") => inv[w].last_result = NoPages
            /\ Called(w, "get_result") =>
                   inv[w].page_contents = inv[w].last_result

\* an invocation of PyPDF2 has fetched its result while the other worker
\* holds a different one
C37_Witness ==
    \E w \in Workers : \E v \in Workers \ {w} :
        /\ Active(w) /\ inv[w].ext = "PyPDF2"
        /\ Called(w, "get_result")
        /\ inv[w].page_contents = inv[w].last_result
        /\ inv[v].last_result # NoPages
        /\ inv[v].last_result # inv[w].last_result

\* C38: an open breaker closes by itself: while the breaker of an extractor
\* is open and every invocation for it is one rejected at the breaker check,
\* its counter does not increase and its expiry is not set again, so the
\* breaker closes CIRCUIT_BREAKER_TIMEOUT after the last failure of a call
\* of the extractor.
C38_OpenBreakerNotRearmed ==
    [][\A x \in ExtractorIds :
        (/\ check_circuit_breaker(x)
         /\ \A w \in Workers :
                (Active(w) /\ inv[w].ext = x) => inv[w].rejected) =>
            /\ cb_count'[x] <= cb_count[x]
            /\ cb_ttl'[x] <= cb_ttl[x]]_vars

\* C39: a failure of the backend inside the extractor never yields a
\* successful job: an attempt whose extractor caught a failure of its
\* backend writes no SUCCESS and commits no page row.
C39_BackendFailureNeverSuccess ==
    \A w \in Workers :
        (Active(w) /\ inv[w].backend_failed) =>
            /\ Count(inv[w].writes, SUCCESS) = 0
            /\ \A r \in rows[inv[w].job] : r.attempt # inv[w].attempt

====
